---- MODULE Spec2Model ----
(***************************************************************************)
(* A model of the Wallet class of eth-wallet-util (src/unnamed/part_000,   *)
(* src/src/types.ts).  Four specifications share the module:               *)
(*   Spec        the payment monitor started by subscribe(vault);          *)
(*   SpecLedger  the wallet's network settings with estimateFees and       *)
(*               getBalance;                                               *)
(*   SpecSend    the wallet's network settings with send;                  *)
(*   SpecKeys    createWallet and generateAddress.                         *)
(* Listeners registered on the wallet's events are caller code: emit is    *)
(* modelled as appending to the log of emitted events, and listeners are   *)
(* taken to return normally.                                               *)
(***************************************************************************)
EXTENDS Integers, Sequences, FiniteSets, TLC

VARIABLES
    \* ---- payment monitor (subscribe) ----
    subscription,   \* "none" | "open" | "errored": the pendingTransactions subscription
    vault,          \* the watched addresses passed to subscribe
    delivered,      \* hashes delivered on the stream, in order; index = observation
    pc,             \* per observation: "timer" | "fetching" | "done"
    fetched,        \* per observation: how its getTransaction settled
    events,         \* the events emitted so far, in order
    uncaught,       \* an exception escaped a callback of the monitor
    logged,         \* console.error was called by the subscribe callback
    \* ---- wallet object and ledger operations ----
    net,            \* this.net
    provider,       \* the url this.provider was built from
    erc20Tokens,    \* the token table: net -> set of TToken
    estimate,       \* how the last estimateFees call ended
    balance,        \* how the last getBalance call ended
    sent,           \* the send call in progress or last ended
    \* ---- key derivation ----
    wallet,         \* how createWallet ended, when it was the last call made
    generated       \* how generateAddress ended, when it was the last call made

monVars == <<subscription, vault, delivered, pc, fetched, events, uncaught, logged>>

ledVars == <<net, provider, erc20Tokens, estimate, balance, sent>>

keyVars == <<wallet, generated>>

vars == <<monVars, ledVars, keyVars>>

(***************************************************************************)
(* Bounds                                                                  *)
(***************************************************************************)
MaxObs == 2

(***************************************************************************)
(* Values                                                                  *)
(***************************************************************************)
\* Addresses as the strings the ledger and the caller hand over; two of them
\* differ in letter case only.
Addresses == {"0xabc", "0xABC", "0xdef"}

ToLower(a) == IF a = "0xABC" THEN "0xabc" ELSE a

Hashes == {"h1", "h2"}

Errs == {"fetch failed"}

\* What provider.eth.getTransaction(hash) resolves to: a transaction, whose
\* recipient may be missing (to = "", a contract creation), or no transaction.
NullTx == [kind |-> "null", hash |-> "", to |-> ""]

Tx(h, a) == [kind |-> "tx", hash |-> h, to |-> a]

TransactionsOf(h) == {Tx(h, a) : a \in Addresses \cup {""}} \cup {NullTx}

\* EventType
DATA == "DATA"
NEW_PAYMENT == "NEW_PAYMENT"
UNCONFIRMED == "UNCONFIRMED"

\* this.emit(type, ...args): the arguments of the three events, and the
\* observation that caused the emit (not part of the event; kept to tell two
\* deliveries of one hash apart).
Event(type, h, tx, e, o) == [type |-> type, hash |-> h, tx |-> tx, err |-> e, obs |-> o]

emit(ev) == events' = Append(events, ev)

\* A comparison that ignores letter case (what the code does not do).
includes_IgnoreCase(arr, x) == \E y \in arr : ToLower(y) = ToLower(x)

\* Array.prototype.includes on an array of strings: strict equality.
includes(arr, x) == \E y \in arr : y = x

NotSettled == [kind |-> "pending", tx |-> NullTx, err |-> ""]

Observations == 1..Len(delivered)

(***************************************************************************)
(* subscribe(vault)                                                        *)
(***************************************************************************)
subscribe(v) ==
    /\ subscription = "none"
    /\ subscription' = "open"
    /\ vault' = v
    /\ UNCHANGED <<delivered, pc, fetched, events, uncaught, logged>>
    /\ UNCHANGED <<ledVars, keyVars>>

\* The callback given to eth.subscribe: (err) => { if (err) console.error(err) }
SubscribeCallbackError ==
    /\ subscription = "open"
    /\ delivered = <<>>
    /\ subscription' = "errored"
    /\ logged' = TRUE
    /\ UNCHANGED <<vault, delivered, pc, fetched, events, uncaught>>
    /\ UNCHANGED <<ledVars, keyVars>>

\* subscription.on("data", hash => ...): emit DATA, then set the 3 minute timer.
OnData(h) ==
    /\ subscription = "open"
    /\ ~uncaught
    /\ Len(delivered) < MaxObs
    /\ delivered' = Append(delivered, h)
    /\ emit(Event(DATA, h, NullTx, "", Len(delivered) + 1))
    /\ pc' = Append(pc, "timer")
    /\ fetched' = Append(fetched, NotSettled)
    /\ UNCHANGED <<subscription, vault, uncaught, logged>>
    /\ UNCHANGED <<ledVars, keyVars>>

\* The timer fires: the async callback starts and awaits getTransaction(hash).
TimerFires(o) ==
    /\ o \in Observations
    /\ ~uncaught
    /\ pc[o] = "timer"
    /\ pc' = [pc EXCEPT ![o] = "fetching"]
    /\ UNCHANGED <<subscription, vault, delivered, fetched, events, uncaught, logged>>
    /\ UNCHANGED <<ledVars, keyVars>>

\* The try block without the vault filter.
GetTransactionResolves_NoFilter(o, tx) ==
    /\ o \in Observations
    /\ ~uncaught
    /\ pc[o] = "fetching"
    /\ tx \in TransactionsOf(delivered[o])
    /\ IF tx.kind = "tx"
         THEN emit(Event(NEW_PAYMENT, "", tx, "", o))
         ELSE UNCHANGED events
    /\ pc' = [pc EXCEPT ![o] = "done"]
    /\ fetched' = [fetched EXCEPT ![o] = [kind |-> "resolved", tx |-> tx, err |-> ""]]
    /\ UNCHANGED <<subscription, vault, delivered, uncaught, logged>>
    /\ UNCHANGED <<ledVars, keyVars>>

\* await getTransaction(hash) resolves with tx: the rest of the try block.
GetTransactionResolves(o, tx) ==
    /\ o \in Observations
    /\ ~uncaught
    /\ pc[o] = "fetching"
    /\ tx \in TransactionsOf(delivered[o])
    /\ IF tx.kind = "tx" /\ tx.to # "" /\ includes(vault, tx.to)
         THEN emit(Event(NEW_PAYMENT, "", tx, "", o))
         ELSE UNCHANGED events
    /\ pc' = [pc EXCEPT ![o] = "done"]
    /\ fetched' = [fetched EXCEPT ![o] = [kind |-> "resolved", tx |-> tx, err |-> ""]]
    /\ UNCHANGED <<subscription, vault, delivered, uncaught, logged>>
    /\ UNCHANGED <<ledVars, keyVars>>

\* The callback without its try/catch: the rejection escapes the callback.
GetTransactionRejects_NoCatch(o, e) ==
    /\ o \in Observations
    /\ ~uncaught
    /\ pc[o] = "fetching"
    /\ e \in Errs
    /\ uncaught' = TRUE
    /\ pc' = [pc EXCEPT ![o] = "done"]
    /\ fetched' = [fetched EXCEPT ![o] = [kind |-> "rejected", tx |-> NullTx, err |-> e]]
    /\ UNCHANGED <<subscription, vault, delivered, events, logged>>
    /\ UNCHANGED <<ledVars, keyVars>>

\* await getTransaction(hash) rejects with e: the catch block.
GetTransactionRejects(o, e) ==
    /\ o \in Observations
    /\ ~uncaught
    /\ pc[o] = "fetching"
    /\ e \in Errs
    /\ emit(Event(UNCONFIRMED, delivered[o], NullTx, e, o))
    /\ pc' = [pc EXCEPT ![o] = "done"]
    /\ fetched' = [fetched EXCEPT ![o] = [kind |-> "rejected", tx |-> NullTx, err |-> e]]
    /\ UNCHANGED <<subscription, vault, delivered, uncaught, logged>>
    /\ UNCHANGED <<ledVars, keyVars>>

InitMonitor ==
    /\ subscription = "none"
    /\ vault = {}
    /\ delivered = <<>>
    /\ pc = <<>>
    /\ fetched = <<>>
    /\ events = <<>>
    /\ uncaught = FALSE
    /\ logged = FALSE

(***************************************************************************)
(* Properties of the payment monitor                                       *)
(***************************************************************************)
EventsOf(o) == SelectSeq(events, LAMBDA ev : ev.obs = o)

DataEvent(o) == Event(DATA, delivered[o], NullTx, "", o)

ResolvedWithTx(o) == fetched[o].kind = "resolved" /\ fetched[o].tx.kind = "tx"

ResolvedWithNull(o) == fetched[o].kind = "resolved" /\ fetched[o].tx.kind = "null"

Rejected(o) == fetched[o].kind = "rejected"

HasFollowUp(o) == \E i \in 1..Len(events) : events[i].obs = o /\ events[i].type # DATA

C2_IsolationInv ==
    /\ ~uncaught
    /\ (subscription = "open" /\ Len(delivered) < MaxObs) => \A h \in Hashes : ENABLED OnData(h)
    /\ \A o \in Observations :
        /\ EventsOf(o)[1] = DataEvent(o)
        /\ pc[o] = "timer" => ENABLED TimerFires(o)
        /\ pc[o] = "fetching" =>
             /\ \A tx \in TransactionsOf(delivered[o]) : ENABLED GetTransactionResolves(o, tx)
             /\ \A e \in Errs : ENABLED GetTransactionRejects(o, e)
        /\ pc[o] = "done" =>
             (HasFollowUp(o) <=> (Rejected(o) \/ (ResolvedWithTx(o) /\ fetched[o].tx.to \in vault)))

C2_IsolationStep ==
    \A o \in Observations :
        (pc'[o] # pc[o] \/ fetched'[o] # fetched[o] \/ EventsOf(o)' # EventsOf(o))
            => /\ \A p \in Observations \ {o} :
                    pc'[p] = pc[p] /\ fetched'[p] = fetched[p] /\ EventsOf(p)' = EventsOf(p)
               /\ Len(delivered') = Len(delivered)
               /\ subscription' = subscription

\* C2: no exception escapes a recheck; a step of one observation's recheck (a
\* failing one included) changes nothing of any other observation or of the
\* subscription; every other observation keeps its DATA event, can take its own
\* next step and ends with the outcome of its own fetch; the stream can deliver.
C2_Isolation == [](C2_IsolationInv) /\ [][C2_IsolationStep]_vars

\* A recheck failed, then the stream delivered another hash, whose own recheck
\* ended in NEW_PAYMENT.
C2_Witness ==
    \E i, j, k \in 1..Len(events) :
        /\ i < j /\ j < k
        /\ events[i].type = UNCONFIRMED
        /\ events[j].type = DATA /\ events[j].obs # events[i].obs
        /\ events[k].type = NEW_PAYMENT /\ events[k].obs = events[j].obs

\* C8: a recheck whose transaction cannot be retrieved (the fetch rejects, or
\* the client answers with no transaction) emits UNCONFIRMED for the hash.
C8_UnconfirmedWhenNotRetrieved ==
    \A o \in Observations :
        (pc[o] = "done" /\ (Rejected(o) \/ ResolvedWithNull(o)))
            => \E i \in 1..Len(events) :
                 /\ events[i].obs = o
                 /\ events[i].type = UNCONFIRMED
                 /\ events[i].hash = delivered[o]

CaseOnlyMismatch(o) ==
    /\ ResolvedWithTx(o)
    /\ fetched[o].tx.to \notin vault
    /\ \E v \in vault : ToLower(v) = ToLower(fetched[o].tx.to)

\* C9: NEW_PAYMENT(tx) is emitted for an observation iff its fetched
\* transaction has a recipient string-equal to a member of vault; a recipient
\* that matches a watched address only up to letter case gets no follow-up.
C9_ExactStringMatch ==
    \A o \in Observations :
        /\ (\E i \in 1..Len(events) :
                events[i].obs = o /\ events[i].type = NEW_PAYMENT /\ events[i].tx = fetched[o].tx)
             <=> (ResolvedWithTx(o) /\ \E v \in vault : v = fetched[o].tx.to)
        /\ (pc[o] = "done" /\ CaseOnlyMismatch(o)) => EventsOf(o) = <<DataEvent(o)>>

\* A recheck is done whose recipient differs from a watched address in case only.
C9_Witness == \E o \in Observations : pc[o] = "done" /\ CaseOnlyMismatch(o)

(***************************************************************************)
(* The wallet object: constructor, setNet, setJsonRcpUrl                   *)
(***************************************************************************)
\* NetTypes
MAIN == "main"
TEST == "test"
Nets == {MAIN, TEST}

\* The endpoint the constructor builds for a net.
InfuraUrl(n) == IF n = MAIN THEN "https://mainnet.infura.io/v3" ELSE "https://ropsten.infura.io/v3"

\* Urls a caller may hand to setJsonRcpUrl: the two above and a node of another chain.
Urls == {InfuraUrl(MAIN), InfuraUrl(TEST), "http://localhost:8545"}

\* The network a ledger endpoint serves.
NetworkOf(url) ==
    CASE url = InfuraUrl(MAIN) -> "mainnet"
      [] url = InfuraUrl(TEST) -> "ropsten"
      [] OTHER -> "private"

\* The chain send() tags the transaction with, chosen from this.net.
ChainOf(n) == IF n = MAIN THEN "mainnet" ELSE "ropsten"

setNet(n) ==
    /\ net' = n
    /\ UNCHANGED <<provider, erc20Tokens, estimate, balance, sent>>
    /\ UNCHANGED <<monVars, keyVars>>

\* setJsonRcpUrl(url) -> initProvider(url): this.provider = new Web3(url)
setJsonRcpUrl(url) ==
    /\ provider' = url
    /\ UNCHANGED <<net, erc20Tokens, estimate, balance, sent>>
    /\ UNCHANGED <<monVars, keyVars>>

(***************************************************************************)
(* Numbers.  web3's BN and bignumber.js are exact; a value is kept as      *)
(* m * 10^e with m free of trailing zeros, which is exact as well and      *)
(* keeps 10^18 out of the model checker's machine integers.                *)
(***************************************************************************)
MaxWhole == 1

\* What the ledger answers: the transaction count, the gas price, the gas
\* estimate and a raw balance.
LedgerNonce == 7

LedgerGasPrice == 20

LedgerGas == 21000

LedgerBalance == 1500

MaxIndex == 2

DefaultDecimals == 18

EtherDecimals == 18

RECURSIVE Norm(_, _)
Norm(m, e) ==
    IF m = 0 THEN [m |-> 0, e |-> 0]
    ELSE IF m % 10 = 0 THEN Norm(m \div 10, e + 1)
    ELSE [m |-> m, e |-> e]

Zero == Norm(0, 0)

RECURSIVE Pow10(_)
Pow10(n) == IF n = 0 THEN 1 ELSE 10 * Pow10(n - 1)

\* A decimal string "<int>.<frac>" as its integer part and its fraction digits
\* ("2" has no fraction digits).
Amount(i, f) == [int |-> i, frac |-> f]

Fractions == {<<>>, <<5>>}

Amounts == {Amount(i, f) : i \in 0..MaxWhole, f \in Fractions}

RECURSIVE DigitsValue(_)
DigitsValue(ds) == IF ds = <<>> THEN 0 ELSE 10 * DigitsValue(SubSeq(ds, 1, Len(ds) - 1)) + ds[Len(ds)]

\* utils.toWei(amount, "ether"): whole * 10^18 + the fraction padded to 18 digits
\* (it throws on more than 18 fraction digits; Fractions has none that long).
toWei(amount) ==
    Norm(amount.int * Pow10(Len(amount.frac)) + DigitsValue(amount.frac),
         EtherDecimals - Len(amount.frac))

\* utils.toBN(amount) takes integers only and throws on a decimal point.
toBNThrows(amount) == amount.frac # <<>>

toBN(amount) == Norm(amount.int, 0)

\* _amount.mul(toBN(10).pow(decimal))
mulPow10(v, decimal) == Norm(v.m, v.e + decimal)

\* utils.toHex(x): the hex string of x.
toHex(x) == [hex |-> x]

(***************************************************************************)
(* The token table ./tokens (not part of the sources at hand): per net, a  *)
(* list of TToken.  The decimals of a listed token range over              *)
(* TokenDecimals.                                                          *)
(***************************************************************************)
ETH == "eth"

\* opts.token: absent ("") or a TokenTypes value.
TokenArgs == {"", ETH, "usdt", "dai"}

TokenDecimals == {0, 6, 18}

TToken(sym, addr, d) == [symbol |-> sym, contractAddress |-> addr, decimals |-> d]

\* usdt is listed on both nets with d decimals, dai on main only.
Registry(d) ==
    [n \in Nets |->
        IF n = MAIN THEN {TToken("usdt", "0xc1", d), TToken("dai", "0xc2", DefaultDecimals)}
                    ELSE {TToken("usdt", "0xc3", d)}]

Registries == {Registry(d) : d \in TokenDecimals}

isEth(token) == token = ETH

\* netSupportedTokens.find(t => t.symbol === token.toLowerCase()): the TokenTypes
\* values are lower case already.  The result is the set of the token found.
find(netSupportedTokens, token) == {t \in netSupportedTokens : t.symbol = token}

Only(S) == CHOOSE t \in S : TRUE

\* _token ? _token.contractAddress : ""
contractAddressOf(found) == IF found # {} THEN Only(found).contractAddress ELSE ""

\* estimateFees: _token ? _token.decimals : 18
estimateDecimals(found) == IF found # {} THEN Only(found).decimals ELSE DefaultDecimals

\* getBalance: token?.decimals || 18
balanceDecimals(found) ==
    IF found # {} /\ Only(found).decimals # 0 THEN Only(found).decimals ELSE DefaultDecimals

Resolved(addr, d) == [contractAddress |-> addr, decimals |-> d]

NotResolved == Resolved("", 0)

(***************************************************************************)
(* estimateFees(opts)                                                      *)
(***************************************************************************)
\* contract.methods.transfer(to, value).encodeABI()
TransferCall(to, v) == [method |-> "transfer", to |-> to, value |-> v]

NoData == [method |-> "", to |-> "", value |-> Zero]

Opts(token, amount, to) == [token |-> token, amount |-> amount, to |-> to]

NoEstimate ==
    [status |-> "none", err |-> "", opts |-> Opts("", Amount(0, <<>>), ""), table |-> "",
     resolved |-> NotResolved, nonce |-> toHex(0), to |-> "", value |-> toHex(Zero),
     hasData |-> FALSE, data |-> NoData, gasLimit |-> 0, gasPrice |-> 0]

\* The awaits of estimateFees that may reject.  getTokenContract only builds
\* the contract object from ./abis/erc20 and the address; it makes no query.
EstimateFailures == {"none", "getTransactionCount", "getGasPrice", "estimateGas"}

estimateFees(from, to, token, amount, trxCount, gasPrice, gasLimit, fail) ==
    LET called == [NoEstimate EXCEPT !.opts = Opts(token, amount, to), !.table = net]
        found == find(erc20Tokens[net], token)
        contractAddress == contractAddressOf(found)
        decimal == estimateDecimals(found)
        nonce == toHex(trxCount)
    IN
    /\ estimate' =
         IF fail \in {"getTransactionCount", "getGasPrice"}
           THEN [called EXCEPT !.status = "error", !.err = "NetworkError"]
         ELSE IF token # "" /\ ~isEth(token)
           THEN IF toBNThrows(amount)
                  THEN [called EXCEPT !.status = "error", !.err = "invalid number value"]
                ELSE IF fail = "estimateGas"
                  THEN [called EXCEPT !.status = "error", !.err = "NetworkError"]
                ELSE [called EXCEPT !.status = "ok",
                                    !.resolved = Resolved(contractAddress, decimal),
                                    !.nonce = nonce,
                                    !.to = contractAddress,
                                    !.hasData = TRUE,
                                    !.data = TransferCall(to, mulPow10(toBN(amount), decimal)),
                                    !.value = toHex(Zero),
                                    !.gasLimit = gasLimit,
                                    !.gasPrice = gasPrice]
         ELSE IF fail = "estimateGas"
           THEN [called EXCEPT !.status = "error", !.err = "NetworkError"]
         ELSE [called EXCEPT !.status = "ok",
                             !.nonce = nonce,
                             !.to = to,
                             !.value = toHex(toWei(amount)),
                             !.gasLimit = gasLimit,
                             !.gasPrice = gasPrice]
    /\ UNCHANGED <<net, provider, erc20Tokens, balance, sent>>
    /\ UNCHANGED <<monVars, keyVars>>

(***************************************************************************)
(* getBalance(opts)                                                        *)
(***************************************************************************)
NoBalance ==
    [status |-> "none", err |-> "", token |-> "", table |-> "",
     resolved |-> NotResolved, value |-> Zero]

\* bigNumberBalance.dividedBy(10^decimals) and utils.fromWei(raw, "ether")
dividedByPow10(raw, decimals) == Norm(raw, 0 - decimals)

getBalance(address, token, raw, fail) ==
    LET called == [NoBalance EXCEPT !.token = token, !.table = net]
        found == find(erc20Tokens[net], token)
        contractAddress == contractAddressOf(found)
    IN
    /\ balance' =
         IF fail
           THEN [called EXCEPT !.status = "error", !.err = "NetworkError"]
         ELSE IF token # "" /\ ~isEth(token)
           THEN [called EXCEPT !.status = "ok",
                               !.resolved = Resolved(contractAddress, balanceDecimals(found)),
                               !.value = dividedByPow10(raw, balanceDecimals(found))]
         ELSE [called EXCEPT !.status = "ok",
                             !.value = dividedByPow10(raw, EtherDecimals)]
    /\ UNCHANGED <<net, provider, erc20Tokens, estimate, sent>>
    /\ UNCHANGED <<monVars, keyVars>>

(***************************************************************************)
(* send(opts) and broadcastTransaction(rawTrx)                             *)
(***************************************************************************)
\* The IEstimate values a caller hands to send: a native and a token transfer.
Estimates ==
    { [nonce |-> toHex(7), to |-> "0xdef", value |-> toHex(toWei(Amount(1, <<5>>))),
       hasData |-> FALSE, data |-> NoData, gasLimit |-> 21000, gasPrice |-> 20],
      [nonce |-> toHex(7), to |-> "0xc1", value |-> toHex(Zero),
       hasData |-> TRUE, data |-> TransferCall("0xdef", Norm(2, 6)),
       gasLimit |-> 60000, gasPrice |-> 20] }

NoRaw ==
    [chain |-> "", signedBy |-> "", nonce |-> toHex(0), to |-> "", value |-> toHex(Zero),
     hasData |-> FALSE, data |-> NoData, gasLimit |-> toHex(0), gasPrice |-> toHex(0)]

NotSent == [status |-> "idle", raw |-> NoRaw, endpoint |-> "", bcast |-> "none", result |-> ""]

\* new Tx(trxObj, {chain}), sign, serialize, then sendSignedTransaction(raw) on
\* this.provider; the promise of broadcastTransaction is pending.
send(opts, privKey) ==
    /\ sent.status # "pending"
    /\ sent' = [status |-> "pending",
                raw |-> [chain |-> ChainOf(net), signedBy |-> privKey,
                         nonce |-> opts.nonce, to |-> opts.to, value |-> opts.value,
                         hasData |-> opts.hasData, data |-> opts.data,
                         gasLimit |-> toHex(opts.gasLimit), gasPrice |-> toHex(opts.gasPrice)],
                endpoint |-> provider,
                bcast |-> "inflight",
                result |-> ""]
    /\ UNCHANGED <<net, provider, erc20Tokens, estimate, balance>>
    /\ UNCHANGED <<monVars, keyVars>>

\* .on("receipt", receipt => { if (!receipt) rej(...); res(receipt) }); receipt
\* "" stands for a falsy receipt.  After rej, res is without effect.
OnReceipt(receipt) ==
    /\ sent.bcast = "inflight"
    /\ sent' = IF receipt = ""
                 THEN [sent EXCEPT !.bcast = "receipt", !.status = "rejected",
                                   !.result = "Broadcast Transaction Failed!"]
                 ELSE [sent EXCEPT !.bcast = "receipt", !.status = "resolved",
                                   !.result = receipt]
    /\ UNCHANGED <<net, provider, erc20Tokens, estimate, balance>>
    /\ UNCHANGED <<monVars, keyVars>>

\* The broadcast ends without a receipt: the node rejects the transaction, or
\* web3 gives up waiting for it to be mined.  The PromiEvent emits "error"; no
\* handler is registered for it, so neither res nor rej is called.
OnBroadcastError ==
    /\ sent.bcast = "inflight"
    /\ sent' = [sent EXCEPT !.bcast = "error"]
    /\ UNCHANGED <<net, provider, erc20Tokens, estimate, balance>>
    /\ UNCHANGED <<monVars, keyVars>>

(***************************************************************************)
(* Mnemonic phrases, as the characters of the string                       *)
(***************************************************************************)
MaxWords == 13

MinWords == 12

WhiteSpace == {" ", "TAB"}

IsSpace(c) == c \in WhiteSpace

Repeat(c, n) == [i \in 1..n |-> c]

RECURSIVE Words(_, _, _)
\* n words made of the letter c, separated by sep
Words(c, n, sep) ==
    IF n = 0 THEN <<>>
    ELSE IF n = 1 THEN <<c, c>>
    ELSE <<c, c>> \o sep \o Words(c, n - 1, sep)

\* The phrases handed to generateAddress: 0..MaxWords words, separated by one
\* or two blanks or tabs, with or without blanks around.
Phrases ==
    { Repeat(" ", around) \o Words("a", n, Repeat(ws, width)) \o Repeat(" ", around) :
        around \in 0..1, n \in 0..MaxWords, ws \in WhiteSpace, width \in 1..2 }

\* String.prototype.trim
RECURSIVE trimStart(_)
trimStart(str) ==
    IF str # <<>> /\ IsSpace(str[1]) THEN trimStart(Tail(str)) ELSE str

RECURSIVE trimEnd(_)
trimEnd(str) ==
    IF str # <<>> /\ IsSpace(str[Len(str)]) THEN trimEnd(SubSeq(str, 1, Len(str) - 1)) ELSE str

trim(str) == trimEnd(trimStart(str))

\* String.prototype.split(/\s+/g): the pieces between maximal runs of white
\* space; a string without white space, the empty one included, is one piece.
RECURSIVE splitFrom(_, _)
splitFrom(str, piece) ==
    IF str = <<>> THEN <<piece>>
    ELSE IF IsSpace(str[1]) THEN <<piece>> \o splitFrom(trimStart(str), <<>>)
    ELSE splitFrom(Tail(str), Append(piece, str[1]))

split(str) == splitFrom(str, <<>>)

\* A check that demands one word more than the code does.
isValidMnemonic_OffByOne(phrase) == Len(split(trim(phrase))) > MinWords

isValidMnemonic(phrase) == Len(split(trim(phrase))) >= MinWords

(***************************************************************************)
(* Key material.  bip39, hdkey and ethereumjs-util are deterministic       *)
(* functions of their arguments; a value is kept as the arguments it was   *)
(* derived from.                                                           *)
(***************************************************************************)
\* Wallet.DEFAULT_DERIVATION_PATH, and `m/44'/60'/0'/0/${derivationIndex}`
DerivationPath(index) == <<"m/44'/60'/0'/0", index>>

DEFAULT_DERIVATION_PATH == DerivationPath(0)

MasterPath == <<"m", 0>>

mnemonicToSeed(mnemonics) == [seed |-> mnemonics]

fromMasterSeed(seed) == [path |-> MasterPath, seed |-> seed.seed]

derive(root, path) == [path |-> path, seed |-> root.seed]

\* A byte buffer: where its bytes come from, and how many there are.
Bytes(kind, path, phrase, text, length) ==
    [kind |-> kind, path |-> path, phrase |-> phrase, text |-> text, length |-> length]

NoBytes == Bytes("", MasterPath, <<>>, "", 0)

privateKeyOf(node) == Bytes("private", node.path, node.seed, "", 32)

publicKeyOf(node) == Bytes("public", node.path, node.seed, "", 33)

\* A private key string a caller supplies: its text and its number of characters.
KeyString(text, chars) == [text |-> text, chars |-> chars]

NoKeyString == KeyString("", 0)

\* Absent, 64 hex digits (the form createWallet returns and send takes), and 32
\* characters.
KeyStrings == {NoKeyString, KeyString("4c0883a6...hex", 64), KeyString("thirty-two ascii characters", 32)}

\* Buffer.from(string): the UTF-8 bytes of the string, one per ASCII character.
BufferFrom(key) == Bytes("utf8", MasterPath, <<>>, key.text, key.chars)

\* ethereumjs-util privateToPublic: secp256k1 rejects a key that is not 32 bytes.
privateToPublicThrows(privateKey) == privateKey.length # 32

privateToPublic(privateKey) == [privateKey EXCEPT !.kind = "public of " \o privateKey.kind, !.length = 64]

\* "0x" + publicToAddress(pubKey).toString("hex")
publicToAddress(pubKey) == [pubKey EXCEPT !.kind = "address of " \o pubKey.kind, !.length = 20]

toChecksumAddress(address) == [address EXCEPT !.kind = "checksum of " \o address.kind]

\* Buffer.toString("hex") of a key
hex(bytes) == [bytes EXCEPT !.length = 2 * bytes.length]

\* generateMnemonic(): twelve words from fresh entropy.
generateMnemonic(entropy) == Words(entropy, MinWords, <<" ">>)

(***************************************************************************)
(* createWallet(opts)                                                      *)
(***************************************************************************)
\* WalletTypes; "" is an absent type
DEFAULT == "DEFAULT"
HD == "HD"
MULTISIG == "MULTISIG"
WalletTypeArgs == {"", DEFAULT, HD, MULTISIG}

CreateOpts(type, privateKey, mnemonics) ==
    [type |-> type, privateKey |-> privateKey, mnemonics |-> mnemonics]

\* calls: the library calls the operation made, in order.
NoWallet ==
    [status |-> "none", err |-> "", opts |-> CreateOpts("", NoKeyString, <<>>), calls |-> <<>>,
     address |-> NoBytes, checkSumAddress |-> NoBytes, publicKey |-> NoBytes,
     privateKey |-> NoBytes, mnemonics |-> <<>>]

NotGenerated ==
    [status |-> "none", err |-> "", phrase |-> <<>>, index |-> 0, calls |-> <<>>,
     address |-> NoBytes, checkSumAddress |-> NoBytes, publicKey |-> NoBytes,
     privateKey |-> NoBytes]

createWallet(opts, entropy) ==
    LET called == [NoWallet EXCEPT !.opts = opts]
        mnemonics == IF opts.mnemonics # <<>> THEN opts.mnemonics ELSE generateMnemonic(entropy)
        seed == mnemonicToSeed(mnemonics)
        root == fromMasterSeed(seed)
        addressNode == derive(root, DEFAULT_DERIVATION_PATH)
        privateKey == IF opts.privateKey # NoKeyString
                        THEN BufferFrom(opts.privateKey)
                        ELSE privateKeyOf(addressNode)
        pubKey == privateToPublic(privateKey)
        address == publicToAddress(pubKey)
        derived == (IF opts.mnemonics # <<>> THEN <<>> ELSE <<"generateMnemonic">>)
                      \o <<"mnemonicToSeed", "fromMasterSeed", "derive">>
    IN
    /\ wallet' =
         IF opts.type = MULTISIG
           THEN [called EXCEPT !.status = "error", !.err = "Wallet type not supported yet."]
         ELSE IF privateToPublicThrows(privateKey)
           THEN [called EXCEPT !.status = "error", !.err = "private key length is invalid",
                               !.calls = derived]
         ELSE [called EXCEPT !.status = "ok",
                             !.calls = derived,
                             !.address = address,
                             !.checkSumAddress = toChecksumAddress(address),
                             !.publicKey = hex(publicKeyOf(addressNode)),
                             !.privateKey = hex(privateKey),
                             !.mnemonics = mnemonics]
    /\ generated' = NotGenerated
    /\ UNCHANGED <<monVars, ledVars>>

(***************************************************************************)
(* generateAddress(mnemonics, derivationIndex)                             *)
(***************************************************************************)
generateAddress(mnemonics, derivationIndex) ==
    LET called == [NotGenerated EXCEPT !.phrase = mnemonics, !.index = derivationIndex]
        seed == mnemonicToSeed(mnemonics)
        root == fromMasterSeed(seed)
        addressNode == derive(root, DerivationPath(derivationIndex))
        address == publicToAddress(privateToPublic(privateKeyOf(addressNode)))
    IN
    /\ generated' =
         IF ~isValidMnemonic(mnemonics)
           THEN [called EXCEPT !.status = "error", !.err = "Invalid Mnemonics"]
         ELSE [called EXCEPT !.status = "ok",
                             !.calls = <<"mnemonicToSeed", "fromMasterSeed", "derive">>,
                             !.address = address,
                             !.checkSumAddress = toChecksumAddress(address),
                             !.publicKey = hex(publicKeyOf(root)),
                             !.privateKey = hex(privateKeyOf(root))]
    /\ wallet' = NoWallet
    /\ UNCHANGED <<monVars, ledVars>>

\* new Wallet(net): provider from the net's url; ./tokens is loaded.  No
\* operation has been called.
Constructed(n, tables) ==
    /\ net = n
    /\ provider = InfuraUrl(n)
    /\ erc20Tokens \in tables
    /\ estimate = NoEstimate
    /\ balance = NoBalance
    /\ sent = NotSent
    /\ wallet = NoWallet
    /\ generated = NotGenerated

(***************************************************************************)
(* Specifications                                                          *)
(***************************************************************************)
\* The payment monitor, on a wallet whose other operations are not called.
Init == InitMonitor /\ Constructed(TEST, {Registry(6)})

Next ==
    \/ \E v \in SUBSET Addresses : subscribe(v)
    \/ SubscribeCallbackError
    \/ \E h \in Hashes : OnData(h)
    \/ \E o \in Observations : TimerFires(o)
    \/ \E o \in Observations : \E tx \in TransactionsOf(delivered[o]) : GetTransactionResolves(o, tx)
    \/ \E o \in Observations, e \in Errs : GetTransactionRejects(o, e)

Spec == Init /\ [][Next]_vars

\* The wallet object with estimateFees and getBalance, no monitor subscribed.
InitLedger == InitMonitor /\ \E n \in Nets : Constructed(n, Registries)

NextLedger ==
    \/ \E n \in Nets : setNet(n)
    \/ \E url \in Urls : setJsonRcpUrl(url)
    \/ \E token \in TokenArgs, amount \in Amounts, fail \in EstimateFailures :
          estimateFees("0xabc", "0xdef", token, amount, LedgerNonce, LedgerGasPrice, LedgerGas, fail)
    \/ \E token \in TokenArgs, fail \in BOOLEAN : getBalance("0xabc", token, LedgerBalance, fail)

SpecLedger == InitLedger /\ [][NextLedger]_vars

\* The wallet object with send, no monitor subscribed.
InitSend == InitMonitor /\ \E n \in Nets : Constructed(n, {Registry(6)})

NextSend ==
    \/ \E n \in Nets : setNet(n)
    \/ \E url \in Urls : setJsonRcpUrl(url)
    \/ \E opts \in Estimates : send(opts, "k1")
    \/ \E receipt \in {"receipt", ""} : OnReceipt(receipt)
    \/ OnBroadcastError

SpecSend == InitSend /\ [][NextSend]_vars

\* createWallet and generateAddress; they use neither the net nor the provider.
InitKeys == InitMonitor /\ Constructed(TEST, {Registry(6)})

NextKeys ==
    \/ \E type \in WalletTypeArgs, key \in KeyStrings, entropy \in {"a", "b"},
          mnemonics \in {<<>>, Words("b", MinWords, <<" ">>)} :
          createWallet(CreateOpts(type, key, mnemonics), entropy)
    \/ \E phrase \in Phrases, index \in 0..MaxIndex : generateAddress(phrase, index)

SpecKeys == InitKeys /\ [][NextKeys]_vars

(***************************************************************************)
(* Properties of the ledger operations                                     *)
(***************************************************************************)
\* amount * 10^decimals for the decimal string amount
BaseUnits(amount, decimals) ==
    Norm(amount.int * Pow10(Len(amount.frac)) + DigitsValue(amount.frac),
         decimals - Len(amount.frac))

IsTokenArg(token) == token # "" /\ token # ETH

\* What the token table says of a token on a net: its entry, or the empty
\* contract address and 18 decimals when it has none.
TableEntry(n, token) ==
    LET listed == {t \in erc20Tokens[n] : t.symbol = token} IN
    IF listed = {} THEN Resolved("", DefaultDecimals)
    ELSE Resolved((CHOOSE t \in listed : TRUE).contractAddress,
                  (CHOOSE t \in listed : TRUE).decimals)

\* C3: once the broadcast has ended, send has settled: resolved with the
\* receipt when a receipt arrived, rejected with the broadcast-failed error
\* when the broadcast ended without one.
C3_SendSettles ==
    /\ (sent.bcast = "receipt" /\ sent.result # "Broadcast Transaction Failed!")
          => sent.status = "resolved"
    /\ sent.bcast = "error"
          => (sent.status = "rejected" /\ sent.result = "Broadcast Transaction Failed!")

\* C4: whenever the ledger answers every query, estimateFees returns a
\* descriptor: for an absent or native token, value = amount * 10^18, to = the
\* recipient, no data; for another token, value = 0, to = the token's contract
\* address, data = transfer(recipient, amount * 10^decimals); nonce, gasLimit
\* and gasPrice are the ledger's.
C4_EstimateShape ==
    (estimate.status # "none" /\ estimate.err # "NetworkError") =>
        /\ estimate.status = "ok"
        /\ estimate.nonce = toHex(LedgerNonce)
        /\ estimate.gasLimit = LedgerGas
        /\ estimate.gasPrice = LedgerGasPrice
        /\ IF IsTokenArg(estimate.opts.token)
             THEN LET entry == TableEntry(estimate.table, estimate.opts.token) IN
                  /\ estimate.value = toHex(Zero)
                  /\ estimate.to = entry.contractAddress
                  /\ estimate.hasData
                  /\ estimate.data = TransferCall(estimate.opts.to,
                                                  BaseUnits(estimate.opts.amount, entry.decimals))
             ELSE /\ estimate.value = toHex(BaseUnits(estimate.opts.amount, EtherDecimals))
                  /\ estimate.to = estimate.opts.to
                  /\ ~estimate.hasData

\* C5: estimateFees and getBalance resolve a token of a net to the same
\* contract address and decimals: those of the token table, or the empty
\* address and 18 decimals for a token the table does not list.
C5_SameResolution ==
    /\ (estimate.status = "ok" /\ IsTokenArg(estimate.opts.token))
          => estimate.resolved = TableEntry(estimate.table, estimate.opts.token)
    /\ (balance.status = "ok" /\ IsTokenArg(balance.token))
          => balance.resolved = TableEntry(balance.table, balance.token)
    /\ (/\ estimate.status = "ok" /\ balance.status = "ok"
        /\ IsTokenArg(balance.token)
        /\ estimate.opts.token = balance.token /\ estimate.table = balance.table)
          => estimate.resolved = balance.resolved

\* C10: the chain this.net selects (the tag send signs with, the token table
\* estimateFees and getBalance read) is the network of the endpoint the
\* provider talks to, now and for every transaction sent.
C10_NetConsistent ==
    /\ ChainOf(net) = NetworkOf(provider)
    /\ sent.status # "idle" => sent.raw.chain = NetworkOf(sent.endpoint)

(***************************************************************************)
(* Properties of key derivation                                            *)
(***************************************************************************)
Made(calls, name) == \E i \in 1..Len(calls) : calls[i] = name

\* C6: createWallet with type MULTISIG fails with the unsupported-type error
\* and makes no library call; with any other type it derives the address node
\* and returns a wallet.
C6_MultisigFailsFast ==
    wallet.status # "none" =>
        IF wallet.opts.type = MULTISIG
          THEN /\ wallet.status = "error"
               /\ wallet.err = "Wallet type not supported yet."
               /\ wallet.calls = <<>>
          ELSE /\ Made(wallet.calls, "derive")
               /\ wallet.status = "ok"

\* The words of a phrase: the positions where a run of non-blank characters starts.
WordCount(phrase) ==
    Cardinality({i \in 1..Len(phrase) :
                    ~IsSpace(phrase[i]) /\ (i = 1 \/ IsSpace(phrase[i - 1]))})

\* C7: generateAddress fails with the invalid-mnemonic error exactly for the
\* phrases of fewer than 12 words, having made no library call; every phrase
\* of 12 or more words is accepted.
C7_MnemonicBoundary ==
    generated.status # "none" =>
        /\ (generated.status = "error" /\ generated.err = "Invalid Mnemonics")
              <=> WordCount(generated.phrase) < MinWords
        /\ WordCount(generated.phrase) < MinWords => generated.calls = <<>>
        /\ WordCount(generated.phrase) >= MinWords
              => (generated.status = "ok" /\ Made(generated.calls, "mnemonicToSeed"))

\* Eleven words with blanks around them (thirteen pieces if split untrimmed)
\* were rejected.
C7_Witness ==
    /\ generated.status = "error"
    /\ WordCount(generated.phrase) = MinWords - 1
    /\ generated.phrase # <<>> /\ IsSpace(generated.phrase[1])

====
